---- MODULE Spec2Model ----
(***************************************************************************)
(* Model of src/main.py: a FastAPI relay over a "profiles" table (supabase) *)
(* and the Twitter API (tweepy).  Each worker of Procs serves one request   *)
(* at a time.  get_profile, update_profile and get_tweets make one          *)
(* datastore call and are one step each; create_tweet reads the counter,    *)
(* posts, then writes the counter, and other requests interleave between    *)
(* these three awaited calls.                                               *)
(***************************************************************************)
EXTENDS Integers, Sequences, FiniteSets, TLC

\* ---------------------------------------------------------------- bounds
NumProcs == 3        \* concurrent request workers
MaxCalls == 4        \* create_tweet requests served in one behaviour
CountSpan == 2       \* the stored counter starts within CountSpan of the ceiling

\* ------------------------------------------------------ program constants
Ceiling == 500       \* main.py:71

Procs == 1 .. NumProcs
Times == {1, 2}                  \* readings of datetime.utcnow()

None == "None"
Ids == {"u1", "u2"}              \* path parameter user_id; only u1 has a row
Strs == {"x"}                    \* non-null request strings
Contents == {"hello"}            \* TweetCreate.content
Limits == {1, 2}                 \* query parameter limit

\* ProfileUpdate: the four optional fields, each None by default
UpdateCols == {"username", "bio", "website", "location"}
ProfileUpdate == [UpdateCols -> Strs \cup {None}]
\* the request bodies tried: no field, one field, two fields, every field
Bodies ==
    {b \in ProfileUpdate :
        {c \in UpdateCols : b[c] # None} \in
            {{}, {"bio"}, {"username", "location"}, UpdateCols}}

Cols == UpdateCols \cup {"id", "twitter_username", "twitter_post_count",
                         "last_tweet_at", "last_tweet_id"}

VARIABLES
    profiles,       \* the profiles table: id -> row
    pc,             \* per worker: "idle", or inside create_tweet "post" / "update"
    req,            \* per worker: the create_tweet request it is serving
    current_count,  \* per worker: create_tweet's local current_count
    tweet_id,       \* per worker: create_tweet's local tweet_id
    last,           \* the request answered last: request, calls made, response
    posts,          \* tweets that exist at Twitter (created by create_tweet)
    successes,      \* create_tweet requests answered with the success body
    failed,         \* create_tweet requests whose counter update raised
    ncalls,         \* create_tweet requests started
    count0          \* the counter of u1 in the initial state

vars == <<profiles, pc, req, current_count, tweet_id, last, posts, successes,
          failed, ncalls, count0>>

\* ------------------------------------------------------ Python outcomes
Return(v) == [kind |-> "return", value |-> v]
Raise(e) == [kind |-> "raise", value |-> e]
\* a datastore response whose .data is None
NoData == [kind |-> "nodata", value |-> "None"]
\* an exception object: its class, and for HTTPException status and detail
HTTPException(status_code, detail) ==
    [type |-> "HTTPException", status_code |-> status_code, detail |-> detail]
Exc(type, msg) == [type |-> type, status_code |-> 0, detail |-> msg]
\* str(e): starlette renders an HTTPException as "<status_code>: <detail>"
str(e) ==
    IF e.type = "HTTPException"
    THEN ToString(e.status_code) \o ": " \o e.detail
    ELSE e.detail

\* FastAPI: a returned value is a 200 response, a raised HTTPException is a
\* response with its status_code and {"detail": detail}
Respond(out) ==
    IF out.kind = "return"
    THEN [status |-> 200, body |-> out.value]
    ELSE [status |-> out.value.status_code, body |-> [detail |-> out.value.detail]]

\* ------------------------------------------------------------- datastore
Project(row, cols) == [c \in cols |-> row[c]]

\* .select(cols).eq("id", id).single().execute(): the row when exactly one
\* matches; with zero rows the client raises (or hands back no data); any
\* call may fail on the way to the datastore
select_single(id, cols) ==
    IF id \in DOMAIN profiles
    THEN {Return(Project(profiles[id], cols)), Raise(Exc("APIError", "connection"))}
    ELSE {Raise(Exc("APIError", "PGRST116")), NoData}

\* .update(values).eq("id", id): the table after the update
update_rows(table, id, values) ==
    [i \in DOMAIN table |->
        IF i = id
        THEN [c \in Cols |-> IF c \in DOMAIN values THEN values[c] ELSE table[i][c]]
        ELSE table[i]]

\* response.data of an update: the updated rows
updated_data(id, values) ==
    IF id \in DOMAIN profiles THEN <<update_rows(profiles, id, values)[id]>> ELSE <<>>

\* one call to the datastore or to Twitter and how it ended:
\* "return", "nodata" or "raise"
Event(call, kind) == [call |-> call, kind |-> kind]

NoReq == [op |-> "none", id |-> None]

\* the record of an answered request: the request, the calls it made, the
\* counter value it read (create_tweet) and the HTTP response
Answer(request, calls, count, out) ==
    [req |-> request, trace |-> calls, read |-> count, resp |-> Respond(out)]

Init ==
    /\ \E n \in (Ceiling - CountSpan) .. Ceiling, tu \in {None, "", "alice"} :
          /\ profiles = [i \in {"u1"} |->
                [id |-> i, username |-> "u", bio |-> None, website |-> None,
                 location |-> "l", twitter_username |-> tu,
                 twitter_post_count |-> n, last_tweet_at |-> None,
                 last_tweet_id |-> None]]
          /\ count0 = n
    /\ pc = [p \in Procs |-> "idle"]
    /\ req = [p \in Procs |-> NoReq]
    /\ current_count = [p \in Procs |-> 0]
    /\ tweet_id = [p \in Procs |-> None]
    /\ last = [req |-> NoReq, trace |-> <<>>, read |-> 0,
               resp |-> [status |-> 0, body |-> None]]
    /\ posts = 0
    /\ successes = 0
    /\ failed = 0
    /\ ncalls = 0

\* a worker is free to take the next request
Free(p) == pc[p] = "idle"

\* ----------------------------------------------------------- get_profile
\* the try block of get_profile, given the outcome of the single-row fetch
get_profile_try(r) ==
    IF r.kind = "raise" THEN r
    ELSE IF r.kind = "nodata" THEN Raise(HTTPException(404, "Profile not found"))
    ELSE Return(r.value)

\* except Exception as e: raise HTTPException(500)
get_profile_except(e) == Raise(HTTPException(500, "Internal Server Error"))

get_profile_body(r) ==
    LET t == get_profile_try(r)
    IN IF t.kind = "raise" THEN get_profile_except(t.value) ELSE t

get_profile ==
    /\ \E p \in Procs : Free(p)
    /\ \E id \in Ids : \E r \in select_single(id, Cols) :
          last' = Answer([op |-> "get_profile", id |-> id],
                         <<Event("select", r.kind)>>, 0, get_profile_body(r))
    /\ UNCHANGED <<profiles, pc, req, current_count, tweet_id, posts, successes,
                   failed, ncalls, count0>>

\* -------------------------------------------------------- update_profile
\* (variant: profile.dict() without exclude_none)
include_none(profile) == profile

\* profile.dict(exclude_none=True)
exclude_none(profile) ==
    [c \in {k \in DOMAIN profile : profile[k] # None} |-> profile[c]]

\* except Exception as e: raise HTTPException(400, str(e))
update_profile_except(e) == Raise(HTTPException(400, str(e)))

update_profile ==
    /\ \E p \in Procs : Free(p)
    /\ \E id \in Ids, profile \in Bodies :
       LET request == [op |-> "update_profile", id |-> id, profile |-> profile]
       IN \/ /\ profiles' = update_rows(profiles, id, exclude_none(profile))
             /\ last' = Answer(request, <<Event("update", "return")>>, 0,
                              Return(updated_data(id, exclude_none(profile))))
          \/ /\ UNCHANGED profiles
             /\ last' = Answer(request, <<Event("update", "raise")>>, 0,
                              update_profile_except(Exc("APIError", "connection")))
    /\ UNCHANGED <<pc, req, current_count, tweet_id, posts, successes, failed,
                   ncalls, count0>>

\* ---------------------------------------------------------- create_tweet
\* (variant: the check written with > instead of >=)
limit_reached_gt(count) == count > Ceiling

\* if current_count >= 500
limit_reached(count) == count >= Ceiling

\* (variant: the handler of get_profile copied here, answering 500)
create_tweet_except_500(e) == Raise(HTTPException(500, str(e)))

\* except Exception as e: raise HTTPException(400, str(e))
create_tweet_except(e) == Raise(HTTPException(400, str(e)))

\* f"https://twitter.com/i/web/status/{tweet_id}"
tweet_url(id) == "https://twitter.com/i/web/status/" \o id

\* datetime.isoformat()
isoformat(t) == "2026-01-01T00:00:0" \o ToString(t)

\* the values create_tweet writes back
counter_update(count, t, id) ==
    [twitter_post_count |-> count + 1, last_tweet_at |-> isoformat(t),
     last_tweet_id |-> id]

\* (variant: the body reports the count read, not the count written)
success_body_stale(count, id) ==
    [success |-> TRUE, new_count |-> count, tweet_id |-> id,
     tweet_url |-> tweet_url(id)]

\* the success body
success_body(count, id) ==
    [success |-> TRUE, new_count |-> count + 1, tweet_id |-> id,
     tweet_url |-> tweet_url(id)]

\* the worker leaves create_tweet
Leave(p) ==
    /\ pc' = [pc EXCEPT ![p] = "idle"]
    /\ req' = [req EXCEPT ![p] = NoReq]
    /\ current_count' = [current_count EXCEPT ![p] = 0]
    /\ tweet_id' = [tweet_id EXCEPT ![p] = None]

\* lines 68-72: read the counter and check it against the ceiling
create_tweet_read(p) ==
    /\ Free(p)
    /\ ncalls < MaxCalls
    /\ ncalls' = ncalls + 1
    /\ \E id \in Ids, content \in Contents :
       \E r \in select_single(id, {"twitter_post_count"}) :
       LET request == [op |-> "create_tweet", id |-> id, content |-> content]
           calls == <<Event("select", r.kind)>>
       IN IF r.kind = "raise"
          THEN /\ last' = Answer(request, calls, 0, create_tweet_except(r.value))
               /\ UNCHANGED <<pc, req, current_count, tweet_id>>
          ELSE IF r.kind = "nodata"
          THEN \* profile.data is None: .get raises AttributeError
               /\ last' = Answer(request, calls, 0, create_tweet_except(
                     Exc("AttributeError", "'NoneType' object has no attribute 'get'")))
               /\ UNCHANGED <<pc, req, current_count, tweet_id>>
          ELSE IF limit_reached(r.value.twitter_post_count)
          THEN /\ last' = Answer(request, calls, r.value.twitter_post_count,
                     create_tweet_except(
                         HTTPException(429, "Monthly tweet limit reached")))
               /\ UNCHANGED <<pc, req, current_count, tweet_id>>
          ELSE /\ current_count' =
                     [current_count EXCEPT ![p] = r.value.twitter_post_count]
               /\ req' = [req EXCEPT ![p] = request]
               /\ pc' = [pc EXCEPT ![p] = "post"]
               /\ UNCHANGED <<last, tweet_id>>
    /\ UNCHANGED <<profiles, posts, successes, failed, count0>>

\* lines 74-75: twitter_client.create_tweet
create_tweet_post(p) ==
    /\ pc[p] = "post"
    /\ \/ /\ posts' = posts + 1
          /\ tweet_id' = [tweet_id EXCEPT ![p] = ToString(posts + 1)]
          /\ pc' = [pc EXCEPT ![p] = "update"]
          /\ UNCHANGED <<req, current_count, last>>
       \/ /\ last' = Answer(req[p],
                <<Event("select", "return"), Event("create_tweet", "raise")>>,
                current_count[p],
                create_tweet_except(Exc("TweepyException", "twitter")))
          /\ Leave(p)
          /\ UNCHANGED posts
    /\ UNCHANGED <<profiles, successes, failed, ncalls, count0>>

\* lines 77-88: write the counter back and answer
create_tweet_update(p) ==
    /\ pc[p] = "update"
    /\ \/ \E t \in Times :
          /\ profiles' = update_rows(profiles, req[p].id,
                            counter_update(current_count[p], t, tweet_id[p]))
          /\ last' = Answer(req[p],
                <<Event("select", "return"), Event("create_tweet", "return"),
                  Event("update", "return")>>,
                current_count[p],
                Return(success_body(current_count[p], tweet_id[p])))
          /\ successes' = successes + 1
          /\ UNCHANGED failed
       \/ /\ last' = Answer(req[p],
                <<Event("select", "return"), Event("create_tweet", "return"),
                  Event("update", "raise")>>,
                current_count[p],
                create_tweet_except(Exc("APIError", "connection")))
          /\ failed' = failed + 1
          /\ UNCHANGED <<profiles, successes>>
    /\ Leave(p)
    /\ UNCHANGED <<posts, ncalls, count0>>

\* ------------------------------------------------------------ get_tweets
\* a tweet as tweepy hands it back
Tweet(k) ==
    [id |-> ToString(k), text |-> "text", created_at |-> "2026-01-01",
     public_metrics |-> [like_count |-> k, retweet_count |-> 0]]

\* lines 127-137: one entry of the "tweets" list
tweet_entry(tweet) ==
    [id |-> tweet.id, text |-> tweet.text, created_at |-> tweet.created_at,
     likes |-> tweet.public_metrics.like_count,
     retweets |-> tweet.public_metrics.retweet_count,
     url |-> "https://twitter.com/i/web/status/" \o tweet.id]

\* twitter_client.get_user(username=...): the account, no account, or an error
get_user(username) ==
    {Return([id |-> "42"]), NoData, Raise(Exc("TweepyException", "lookup failed"))}

\* twitter_client.get_users_tweets(id, max_results=limit, ...): at most limit
\* tweets, none, or an error
get_users_tweets(id, limit) ==
    {Return([k \in 1 .. n |-> Tweet(k)]) : n \in 1 .. limit}
        \cup {NoData, Raise(Exc("TweepyException", "fetch failed"))}

EmptyTweets == [tweets |-> <<>>]

\* (variant: the inner handler re-raises as the outer one does)
twitter_except_raise(e) == Raise(HTTPException(500, str(e)))

\* lines 139-141: except Exception as e: return {"tweets": [], "error": str(e)}
twitter_except(e) == Return([tweets |-> <<>>, error |-> str(e)])

\* lines 143-145: except Exception as e: raise HTTPException(500, str(e))
get_tweets_except(e) == Raise(HTTPException(500, str(e)))

\* lines 108-141: the inner try block, as the set of its runs (calls made, outcome)
twitter_runs(username, limit, calls) ==
    UNION {
        LET c1 == Append(calls, Event("get_user", u.kind))
        IN IF u.kind = "raise" THEN {[trace |-> c1, out |-> twitter_except(u.value)]}
           ELSE IF u.kind = "nodata" THEN {[trace |-> c1, out |-> Return(EmptyTweets)]}
           ELSE {
               LET c2 == Append(c1, Event("get_users_tweets", t.kind))
               IN IF t.kind = "raise" THEN [trace |-> c2, out |-> twitter_except(t.value)]
                  ELSE IF t.kind = "nodata" THEN [trace |-> c2, out |-> Return(EmptyTweets)]
                  ELSE [trace |-> c2, out |-> Return([tweets |->
                          [k \in 1 .. Len(t.value) |-> tweet_entry(t.value[k])]])]
               : t \in get_users_tweets(u.value.id, limit)}
        : u \in get_user(username)}

\* if not username
falsy(username) == username = None \/ username = ""

\* lines 95-145: the runs of get_tweets given the outcome r of the profile fetch
get_tweets_runs(r, limit) ==
    LET calls == <<Event("select", r.kind)>>
    IN IF r.kind = "raise" THEN {[trace |-> calls, out |-> get_tweets_except(r.value)]}
       ELSE IF r.kind = "nodata" THEN {[trace |-> calls, out |-> Return(EmptyTweets)]}
       ELSE IF falsy(r.value.twitter_username)
       THEN {[trace |-> calls, out |-> Return(EmptyTweets)]}
       ELSE twitter_runs(r.value.twitter_username, limit, calls)

get_tweets ==
    /\ \E p \in Procs : Free(p)
    /\ \E id \in Ids, limit \in Limits :
       \E r \in select_single(id, {"twitter_username"}) :
       \E run \in get_tweets_runs(r, limit) :
          last' = Answer([op |-> "get_tweets", id |-> id, limit |-> limit],
                         run.trace, 0, run.out)
    /\ UNCHANGED <<profiles, pc, req, current_count, tweet_id, posts, successes,
                   failed, ncalls, count0>>

Next ==
    \/ get_profile
    \/ update_profile
    \/ get_tweets
    \/ \E p \in Procs :
        \/ create_tweet_read(p)
        \/ create_tweet_post(p)
        \/ create_tweet_update(p)

\* every handler, interleaved
Spec == Init /\ [][Next]_vars

\* the handlers meet only in the profiles table, where get_profile and
\* get_tweets write nothing and update_profile and create_tweet write disjoint
\* columns; each group is also explored on its own
NextProfile == get_profile \/ update_profile
SpecProfile == Init /\ [][NextProfile]_vars

NextTweets == get_tweets
SpecTweets == Init /\ [][NextTweets]_vars

NextCreate ==
    \E p \in Procs :
        \/ create_tweet_read(p)
        \/ create_tweet_post(p)
        \/ create_tweet_update(p)
SpecCreate == Init /\ [][NextCreate]_vars

\* ================================================================ claims
\* the stored counter of the one profile
Count == profiles["u1"].twitter_post_count

\* the calls of the answered request that went to Twitter
TwitterCalls(calls) ==
    {i \in 1 .. Len(calls) :
        calls[i].call \in {"create_tweet", "get_user", "get_users_tweets"}}

\* C1: a create_tweet request that reads a counter at or above the ceiling is
\* answered 429 and makes no call to Twitter.
C1_RateLimited429 ==
    (/\ last.req.op = "create_tweet"
     /\ last.trace[1].kind = "return"
     /\ last.read >= Ceiling)
    => (/\ last.resp.status = 429
        /\ TwitterCalls(last.trace) = {})

\* C2: get_profile answers 404 for an id without a row, and 200 with the stored
\* row for an id with one.
C2_GetProfileNotFound ==
    last.req.op = "get_profile"
    => IF last.req.id \in DOMAIN profiles
       THEN last.trace[1].kind = "return"
            => (last.resp.status = 200 /\ last.resp.body = profiles[last.req.id])
       ELSE last.resp.status = 404

\* C3: the stored counter equals its initial value plus the number of
\* create_tweet requests answered with the success body.
C3_ExactIncrement == Count = count0 + successes

\* C4: the stored counter never exceeds the ceiling.
C4_CountCeiling == Count <= Ceiling

\* two overlapping create_tweet requests both succeeded and the counter stands
\* at the ceiling
C4_Witness ==
    /\ Count = Ceiling
    /\ successes >= 2
    /\ posts > Count - count0

\* C5: when a create_tweet request that read Ceiling - 1 has been answered with
\* success and a second one that also read Ceiling - 1 before that write
\* finishes with success, both report new_count = Ceiling for two different
\* tweets and the stored counter stays at Ceiling: one increment is lost.
C5_LostUpdate ==
    [][\A p \in Procs :
        (/\ last.req.op = "create_tweet"
         /\ last.resp.status = 200
         /\ last.read = Ceiling - 1
         /\ pc[p] = "update"
         /\ current_count[p] = Ceiling - 1
         /\ pc'[p] = "idle"
         /\ successes' = successes + 1)
        => (/\ last.resp.body.new_count = Ceiling
            /\ last'.resp.status = 200
            /\ last'.resp.body.new_count = Ceiling
            /\ last'.resp.body.tweet_id # last.resp.body.tweet_id
            /\ Count = Ceiling
            /\ Count' = Ceiling
            /\ posts' >= 2
            /\ posts' > Count' - count0)]_vars

\* exactly two requests ran, both from a counter of Ceiling - 1, and both
\* succeeded
C5_Witness ==
    /\ count0 = Ceiling - 1
    /\ ncalls = 2
    /\ successes = 2
    /\ posts = 2
    /\ Count = Ceiling
    /\ last.resp.status = 200
    /\ last.resp.body.new_count = Ceiling
    /\ \A p \in Procs : pc[p] = "idle"

\* C6: get_tweets answers 200 {"tweets": []} without calling Twitter when the
\* profile is missing or its twitter_username is absent or empty.
C6_EmptyNotError ==
    (/\ last.req.op = "get_tweets"
     /\ \/ last.req.id \notin DOMAIN profiles
        \/ /\ last.req.id \in DOMAIN profiles
           /\ last.trace[1].kind = "return"
           /\ falsy(profiles[last.req.id].twitter_username))
    => (/\ last.resp.status = 200
        /\ DOMAIN last.resp.body = {"tweets"}
        /\ last.resp.body.tweets = <<>>
        /\ TwitterCalls(last.trace) = {})

\* C7: get_tweets answers 200 or 500, and 500 exactly when the profile fetch
\* raised; when a call to Twitter raised the answer is 200 with an empty list
\* and the error message.
C7_TwitterErrorIs200 ==
    last.req.op = "get_tweets"
    => (/\ last.resp.status \in {200, 500}
        /\ last.resp.status = 500 <=> last.trace[1].kind = "raise"
        /\ (\E i \in TwitterCalls(last.trace) : last.trace[i].kind = "raise")
           => (/\ last.resp.status = 200
               /\ DOMAIN last.resp.body = {"tweets", "error"}
               /\ last.resp.body.tweets = <<>>
               /\ last.resp.body.error \in {"lookup failed", "fetch failed"}))

\* the profile has a username and the account lookup raised
C7_Witness ==
    /\ last.req.op = "get_tweets"
    /\ Len(last.trace) = 2
    /\ last.trace[2] = Event("get_user", "raise")
    /\ last.resp.status = 200
    /\ last.resp.body.error = "lookup failed"

\* C8: update_profile writes the non-null request fields over their columns of
\* the row with the id and changes nothing else; the same update applied again
\* changes nothing.
C8_PartialUpdate ==
    [][last'.req.op = "update_profile"
       => LET id == last'.req.id
              body == last'.req.profile
          IN /\ DOMAIN profiles' = DOMAIN profiles
             /\ \A i \in DOMAIN profiles : \A c \in Cols :
                   profiles'[i][c] =
                      IF /\ i = id
                         /\ last'.resp.status = 200
                         /\ c \in UpdateCols
                         /\ body[c] # None
                      THEN body[c]
                      ELSE profiles[i][c]
             /\ last'.resp.status = 200
                => update_rows(profiles', id, exclude_none(body)) = profiles']_vars

\* only bio was sent: bio is overwritten, the other columns keep their values
C8_Witness ==
    /\ last.req.op = "update_profile"
    /\ last.req.id = "u1"
    /\ last.resp.status = 200
    /\ last.req.profile.bio = "x"
    /\ last.req.profile.username = None
    /\ profiles["u1"].bio = "x"
    /\ profiles["u1"].username = "u"
    /\ profiles["u1"].website = None
    /\ profiles["u1"].location = "l"

\* tweets posted by finished requests outnumber the growth of the counter
Desync ==
    posts - Cardinality({p \in Procs : pc[p] = "update"}) > Count - count0

\* C9: when the counter update raises after the tweet was posted, the answer is
\* 400, the row is unchanged and the tweet stays; from then on the tweets of
\* finished requests outnumber the growth of the counter, for good.
C9_UpdateFailure ==
    [][/\ \A p \in Procs :
            (pc[p] = "update" /\ pc'[p] = "idle" /\ failed' = failed + 1)
            => (/\ last'.resp.status = 400
                /\ profiles' = profiles
                /\ tweet_id[p] # None
                /\ posts' = posts
                /\ posts >= 1
                /\ Desync')
       /\ Desync => Desync']_vars

\* a finished request posted its tweet and failed to write the counter
C9_Witness ==
    /\ failed >= 1
    /\ last.req.op = "create_tweet"
    /\ Len(last.trace) = 3
    /\ last.trace[2] = Event("create_tweet", "return")
    /\ last.trace[3] = Event("update", "raise")
    /\ last.resp.status = 400
    /\ Count = count0
    /\ posts = 1
    /\ Desync
    /\ \A p \in Procs : pc[p] = "idle"

\* C10: no step lowers the stored counter.
C10_CounterMonotonic ==
    [][profiles'["u1"].twitter_post_count >= profiles["u1"].twitter_post_count]_vars
====
